---------------------------- MODULE Spec2Model ----------------------------
(***************************************************************************)
(* The tool-call handler of the Perplexity MCP server (src/src/index.ts):  *)
(* operation resolution, prompt construction, the single backend request   *)
(* and the post-processing of the backend's reply.                         *)
(*                                                                         *)
(* Text is a sequence of atoms.  Data that the code inspects character by  *)
(* character (the query, the answer, citations, focus areas) is a sequence *)
(* of one-character strings.  The fixed pieces of the template literals    *)
(* of the source are single atoms holding the literal's text.              *)
(***************************************************************************)
EXTENDS Naturals, Sequences, FiniteSets, TLC

\* The line feed and the backquote, as characters of a text.
LF == "\n"
Backtick == "<backquote>"

UpperCase ==
  <<"A", "B", "C", "D", "E", "F", "G", "H", "I", "J", "K", "L", "M",
    "N", "O", "P", "Q", "R", "S", "T", "U", "V", "W", "X", "Y", "Z">>
LowerCase ==
  <<"a", "b", "c", "d", "e", "f", "g", "h", "i", "j", "k", "l", "m",
    "n", "o", "p", "q", "r", "s", "t", "u", "v", "w", "x", "y", "z">>
DecimalDigits == <<"0", "1", "2", "3", "4", "5", "6", "7", "8", "9">>

Range(f) == {f[k] : k \in DOMAIN f}
UpperSet == Range(UpperCase)
LowerSet == Range(LowerCase)
DigitSet == Range(DecimalDigits)

\* The lower-case letter of each upper-case letter.
LowerOf ==
  [c \in UpperSet |-> LowerCase[CHOOSE k \in DOMAIN UpperCase : UpperCase[k] = c]]

\* String.prototype.toLowerCase, one character.
LowerChar(c) == IF c \in UpperSet THEN LowerOf[c] ELSE c

\* String.prototype.toLowerCase.
toLowerCase(s) == [k \in 1..Len(s) |-> LowerChar(s[k])]

\* String.prototype.includes: t occurs in s as a contiguous run.
includes(s, t) ==
  \E i \in 0..(Len(s) - Len(t)) : \A k \in 1..Len(t) : s[i + k] = t[k]

\* Number-to-string conversion of a template literal, ${n}: decimal digits.
RECURSIVE String(_)
String(n) ==
  IF n < 10 THEN <<DecimalDigits[n + 1]>>
            ELSE String(n \div 10) \o <<DecimalDigits[(n % 10) + 1]>>

\* Array.prototype.join: the elements of lines with sep between them.
RECURSIVE join(_, _)
join(lines, sep) ==
  IF Len(lines) = 0 THEN <<>>
  ELSE IF Len(lines) = 1 THEN lines[1]
  ELSE lines[1] \o sep \o join(Tail(lines), sep)

-----------------------------------------------------------------------------
(* determineQueryComplexity *)

researchIndicators ==
  << <<"a", "n", "a", "l", "y", "z", "e">>, <<"r", "e", "s", "e", "a", "r", "c", "h">>, <<"i", "n", "v", "e", "s", "t", "i", "g", "a", "t", "e">>, <<"s", "t", "u", "d", "y">>,
     <<"e", "x", "a", "m", "i", "n", "e">>, <<"e", "x", "p", "l", "o", "r", "e">>, <<"c", "o", "m", "p", "r", "e", "h", "e", "n", "s", "i", "v", "e">>, <<"d", "e", "t", "a", "i", "l", "e", "d">>,
     <<"i", "n", "-", "d", "e", "p", "t", "h">>, <<"t", "h", "o", "r", "o", "u", "g", "h">>, <<"c", "o", "m", "p", "a", "r", "e", " ", "a", "n", "d", " ", "c", "o", "n", "t", "r", "a", "s", "t">>,
     <<"e", "v", "a", "l", "u", "a", "t", "e">>, <<"a", "s", "s", "e", "s", "s">> >>

complexIndicators ==
  << <<"h", "o", "w">>, <<"w", "h", "y">>, <<"w", "h", "a", "t", " ", "i", "f">>, <<"e", "x", "p", "l", "a", "i", "n">>, <<"s", "o", "l", "v", "e">>,
     <<"s", "t", "e", "p", "s", " ", "t", "o">>, <<"d", "i", "f", "f", "e", "r", "e", "n", "c", "e", " ", "b", "e", "t", "w", "e", "e", "n">>, <<"c", "o", "m", "p", "a", "r", "e">>,
     <<"w", "h", "i", "c", "h", " ", "i", "s", " ", "b", "e", "t", "t", "e", "r">>, <<"p", "r", "o", "s", " ", "a", "n", "d", " ", "c", "o", "n", "s">>, <<"a", "d", "v", "a", "n", "t", "a", "g", "e", "s">>,
     <<"d", "i", "s", "a", "d", "v", "a", "n", "t", "a", "g", "e", "s">> >>

\* Array.prototype.some over a list of indicators.
someIncluded(text, indicators) ==
  \E k \in DOMAIN indicators : includes(text, indicators[k])

determineQueryComplexity_complexFirst(query) ==
  LET query_lower == toLowerCase(query) IN
  IF someIncluded(query_lower, complexIndicators) THEN "complex"
  ELSE IF someIncluded(query_lower, researchIndicators) THEN "research"
  ELSE "simple"

determineQueryComplexity_caseSensitive(query) ==
  IF someIncluded(query, researchIndicators) THEN "research"
  ELSE IF someIncluded(query, complexIndicators) THEN "complex"
  ELSE "simple"

determineQueryComplexity(query) ==
  LET query_lower == toLowerCase(query) IN
  IF someIncluded(query_lower, researchIndicators) THEN "research"
  ELSE IF someIncluded(query_lower, complexIndicators) THEN "complex"
  ELSE "simple"

-----------------------------------------------------------------------------
(* detectMissingDetails: the regular expressions, all with the i flag *)

\* \w, \s, \d and, under the i flag, [a-z] and [A-Z] alike.
WordChars == UpperSet \cup LowerSet \cup DigitSet \cup {"_"}
SpaceChars == {" ", LF}
Letters == UpperSet \cup LowerSet
IsWordChar(c) == c \in WordChars
IsSpace(c) == c \in SpaceChars
IsDigit(c) == c \in DigitSet
IsLetter(c) == c \in Letters

\* Every position of s from a to b is in class C.
AllIn(s, a, b, C(_)) == \A k \in a..b : C(s[k])

\* The literal w (given in lower case) matches s after offset p, ignoring case.
MatchAt(s, p, w) ==
  /\ p + Len(w) <= Len(s)
  /\ \A k \in 1..Len(w) : LowerChar(s[p + k]) = w[k]

\* /w/i.test(s) for a literal w.
testLiteral(s, w) == \E p \in 0..(Len(s) - Len(w)) : MatchAt(s, p, w)

\* /w1|w2|.../i.test(s) for literals.
testAnyLiteral(s, ws) == \E k \in DOMAIN ws : testLiteral(s, ws[k])

\* /kw\s+\w+/i.test(s)
testKeywordSpaceWord(s, kw) ==
  \E p \in 0..(Len(s) - Len(kw)) :
    /\ MatchAt(s, p, kw)
    /\ \E j \in (p + Len(kw) + 1)..(Len(s) - 1) :
         /\ AllIn(s, p + Len(kw) + 1, j, IsSpace)
         /\ IsWordChar(s[j + 1])

\* /import\s+/i.test(s)
testImport(s) ==
  \E p \in 0..(Len(s) - 7) :
    MatchAt(s, p, <<"i", "m", "p", "o", "r", "t">>) /\ IsSpace(s[p + 7])

\* /\.\w+\(/i.test(s)
testDottedCall(s) ==
  \E p \in 1..Len(s) :
    /\ s[p] = "."
    /\ \E j \in (p + 2)..Len(s) :
         AllIn(s, p + 1, j - 1, IsWordChar) /\ s[j] = "("

\* /[a-z]\w*\([^)]*\)/i.test(s)
testFunctionCall(s) ==
  \E p \in 1..Len(s) :
    /\ IsLetter(s[p])
    /\ \E j \in (p + 1)..Len(s) :
         /\ AllIn(s, p + 1, j - 1, IsWordChar)
         /\ s[j] = "("
         /\ \E m \in (j + 1)..Len(s) :
              /\ s[m] = ")"
              /\ \A k \in (j + 1)..(m - 1) : s[k] # ")"

\* /\w+\.\w+\s*=/i.test(s)
testPropertyAssignment(s) ==
  \E p \in 2..Len(s) :
    /\ s[p] = "."
    /\ IsWordChar(s[p - 1])
    /\ \E j \in (p + 1)..Len(s) :
         /\ AllIn(s, p + 1, j, IsWordChar)
         /\ \E m \in (j + 1)..Len(s) :
              AllIn(s, j + 1, m - 1, IsSpace) /\ s[m] = "="

\* /\d+\.\d+(\.\d+)?/i.test(s)
testDottedVersion(s) ==
  \E p \in 2..(Len(s) - 1) :
    s[p] = "." /\ IsDigit(s[p - 1]) /\ IsDigit(s[p + 1])

\* /version\s*\d+|v\d+/i.test(s)
testVersionWord(s) ==
  \/ \E p \in 0..(Len(s) - 7) :
       /\ MatchAt(s, p, <<"v", "e", "r", "s", "i", "o", "n">>)
       /\ \E j \in (p + 8)..Len(s) :
            AllIn(s, p + 8, j - 1, IsSpace) /\ IsDigit(s[j])
  \/ \E p \in 1..(Len(s) - 1) :
       LowerChar(s[p]) = "v" /\ IsDigit(s[p + 1])

\* /[A-Z][a-z]+[A-Z]/i.test(s): with the i flag both classes match a letter
\* of either case.
testMixedCase(s) ==
  \E p \in 1..Len(s) :
    /\ IsLetter(s[p])
    /\ \E j \in (p + 2)..Len(s) :
         AllIn(s, p + 1, j - 1, IsLetter) /\ IsLetter(s[j])

\* /::\w+/i.test(s)
testNamespace(s) ==
  \E p \in 0..(Len(s) - 3) :
    MatchAt(s, p, <<":", ":">>) /\ IsWordChar(s[p + 3])

\* /at\s+\w+\.\w+/i.test(s)
testStackFrame(s) ==
  \E p \in 0..(Len(s) - 2) :
    /\ MatchAt(s, p, <<"a", "t">>)
    /\ \E j \in (p + 3)..Len(s) :
         /\ AllIn(s, p + 3, j, IsSpace)
         /\ \E m \in (j + 1)..(Len(s) - 2) :
              /\ AllIn(s, j + 1, m, IsWordChar)
              /\ s[m + 1] = "."
              /\ IsWordChar(s[m + 2])

\* query.length thresholds of detectMissingDetails.
LogLengthThreshold == 100
ShortQueryLength == 50

hasErrors(query) ==
  \/ testAnyLiteral(query,
       << <<"e", "r", "r", "o", "r">>, <<"e", "x", "c", "e", "p", "t", "i", "o", "n">>, <<"f", "a", "i", "l", "u", "r", "e">>, <<"c", "r", "a", "s", "h">>,
          <<"t", "r", "a", "c", "e", "b", "a", "c", "k">>, <<"s", "t", "a", "c", "k", " ", "t", "r", "a", "c", "e">>, <<"f", "a", "i", "l", "e", "d">> >>)
  \/ testAnyLiteral(query, << <<"e", "r", "r", "o", "r", ":">>, <<"e", "x", "c", "e", "p", "t", "i", "o", "n", ":">> >>)
  \/ testStackFrame(query)

hasCode_withoutFence(query) ==
  \/ testKeywordSpaceWord(query, <<"f", "u", "n", "c", "t", "i", "o", "n">>)
  \/ testKeywordSpaceWord(query, <<"c", "o", "n", "s", "t">>)
  \/ testKeywordSpaceWord(query, <<"l", "e", "t">>)
  \/ testKeywordSpaceWord(query, <<"v", "a", "r">>)
  \/ testImport(query)
  \/ testLiteral(query, <<"r", "e", "q", "u", "i", "r", "e", "(">>)
  \/ testDottedCall(query)
  \/ testFunctionCall(query)
  \/ testPropertyAssignment(query)

hasCode(query) ==
  \/ testLiteral(query, <<Backtick, Backtick, Backtick>>)
  \/ testKeywordSpaceWord(query, <<"f", "u", "n", "c", "t", "i", "o", "n">>)
  \/ testKeywordSpaceWord(query, <<"c", "o", "n", "s", "t">>)
  \/ testKeywordSpaceWord(query, <<"l", "e", "t">>)
  \/ testKeywordSpaceWord(query, <<"v", "a", "r">>)
  \/ testImport(query)
  \/ testLiteral(query, <<"r", "e", "q", "u", "i", "r", "e", "(">>)
  \/ testDottedCall(query)
  \/ testFunctionCall(query)
  \/ testPropertyAssignment(query)

hasVersions(query) == testDottedVersion(query) \/ testVersionWord(query)

hasSpecificNames(query) ==
  \/ testMixedCase(query)
  \/ testDottedCall(query)
  \/ testNamespace(query)
  \/ testLiteral(query, <<"a", "p", "i", ".">>)
  \/ testLiteral(query, <<"s", "d", "k", ".">>)

hasLogs(query) ==
  /\ testAnyLiteral(query,
       << <<"l", "o", "g">>, <<"c", "o", "n", "s", "o", "l", "e">>, <<"o", "u", "t", "p", "u", "t">>, <<"p", "r", "i", "n", "t">>, <<"t", "r", "a", "c", "e">>,
          <<"d", "e", "b", "u", "g">> >>)
  /\ (Len(query) > LogLengthThreshold \/ testLiteral(query, <<LF>>))

hasEnvironment(query) ==
  testAnyLiteral(toLowerCase(query),
    << <<"n", "o", "d", "e">>, <<"p", "y", "t", "h", "o", "n">>, <<"j", "a", "v", "a">>, <<"j", "a", "v", "a", "s", "c", "r", "i", "p", "t">>, <<"t", "y", "p", "e", "s", "c", "r", "i", "p", "t">>,
       <<"r", "e", "a", "c", "t">>, <<"v", "u", "e">>, <<"a", "n", "g", "u", "l", "a", "r">>, <<"l", "i", "n", "u", "x">>, <<"w", "i", "n", "d", "o", "w", "s">>,
       <<"m", "a", "c", "o", "s">>, <<"u", "b", "u", "n", "t", "u">>, <<"d", "o", "c", "k", "e", "r">> >>)

problemVocabulary(query) ==
  testAnyLiteral(toLowerCase(query),
    << <<"p", "r", "o", "b", "l", "e", "m">>, <<"i", "s", "s", "u", "e">>, <<"b", "u", "g">>, <<"f", "i", "x">>, <<"s", "o", "l", "u", "t", "i", "o", "n">>,
       <<"h", "o", "w", " ", "t", "o">>, <<"w", "h", "y">>, <<"d", "e", "b", "u", "g">> >>)

\* The entries a rule pushes when its condition holds.
Push(cond, entries) == IF cond THEN entries ELSE <<>>

detectMissingDetails_suppressing(query) ==
  LET errors == hasErrors(query)
      code == hasCode(query)
      versions == hasVersions(query)
      specificNames == hasSpecificNames(query)
      logs == hasLogs(query)
      environment == hasEnvironment(query)
      seemsTechnical == errors \/ code \/ problemVocabulary(query)
      rule1 == errors /\ ~code /\ ~logs
      rules1to4 ==
        Push(rule1,
             << <<"code snippets showing the error context">>,
                <<"relevant logs or stack traces">> >>)
        \o Push(~versions /\ (code \/ environment),
             << <<"version numbers (framework, library, runtime versions)">> >>)
        \o Push(~rule1 /\ ~specificNames /\ (code \/ errors),
             << <<"exact function names, API endpoints, or library names">> >>)
        \o Push(errors /\ ~environment,
             << <<"environment details (OS, runtime version, framework)">> >>)
  IN rules1to4
     \o Push(/\ seemsTechnical
             /\ Len(rules1to4) = 0
             /\ Len(query) < ShortQueryLength
             /\ ~code
             /\ ~errors,
             << <<"specific error messages or code snippets">>,
                <<"exact terminology and context">> >>)

detectMissingDetails_fallbackAlways(query) ==
  LET errors == hasErrors(query)
      code == hasCode(query)
      versions == hasVersions(query)
      specificNames == hasSpecificNames(query)
      logs == hasLogs(query)
      environment == hasEnvironment(query)
      seemsTechnical == errors \/ code \/ problemVocabulary(query)
      rules1to4 ==
        Push(errors /\ ~code /\ ~logs,
             << <<"code snippets showing the error context">>,
                <<"relevant logs or stack traces">> >>)
        \o Push(~versions /\ (code \/ environment),
             << <<"version numbers (framework, library, runtime versions)">> >>)
        \o Push(~specificNames /\ (code \/ errors),
             << <<"exact function names, API endpoints, or library names">> >>)
        \o Push(errors /\ ~environment,
             << <<"environment details (OS, runtime version, framework)">> >>)
  IN rules1to4
     \o Push(/\ seemsTechnical
             /\ Len(query) < ShortQueryLength
             /\ ~code
             /\ ~errors,
             << <<"specific error messages or code snippets">>,
                <<"exact terminology and context">> >>)

detectMissingDetails_withoutRule4(query) ==
  LET errors == hasErrors(query)
      code == hasCode(query)
      versions == hasVersions(query)
      specificNames == hasSpecificNames(query)
      logs == hasLogs(query)
      environment == hasEnvironment(query)
      seemsTechnical == errors \/ code \/ problemVocabulary(query)
      rules1to3 ==
        Push(errors /\ ~code /\ ~logs,
             << <<"code snippets showing the error context">>,
                <<"relevant logs or stack traces">> >>)
        \o Push(~versions /\ (code \/ environment),
             << <<"version numbers (framework, library, runtime versions)">> >>)
        \o Push(~specificNames /\ (code \/ errors),
             << <<"exact function names, API endpoints, or library names">> >>)
  IN rules1to3
     \o Push(/\ seemsTechnical
             /\ Len(rules1to3) = 0
             /\ Len(query) < ShortQueryLength
             /\ ~code
             /\ ~errors,
             << <<"specific error messages or code snippets">>,
                <<"exact terminology and context">> >>)

detectMissingDetails(query) ==
  LET errors == hasErrors(query)
      code == hasCode(query)
      versions == hasVersions(query)
      specificNames == hasSpecificNames(query)
      logs == hasLogs(query)
      environment == hasEnvironment(query)
      seemsTechnical == errors \/ code \/ problemVocabulary(query)
      rules1to4 ==
        Push(errors /\ ~code /\ ~logs,
             << <<"code snippets showing the error context">>,
                <<"relevant logs or stack traces">> >>)
        \o Push(~versions /\ (code \/ environment),
             << <<"version numbers (framework, library, runtime versions)">> >>)
        \o Push(~specificNames /\ (code \/ errors),
             << <<"exact function names, API endpoints, or library names">> >>)
        \o Push(errors /\ ~environment,
             << <<"environment details (OS, runtime version, framework)">> >>)
  IN rules1to4
     \o Push(/\ seemsTechnical
             /\ Len(rules1to4) = 0
             /\ Len(query) < ShortQueryLength
             /\ ~code
             /\ ~errors,
             << <<"specific error messages or code snippets">>,
                <<"exact terminology and context">> >>)

-----------------------------------------------------------------------------
(* The prompt of each operation (the switch on selectedTool) *)

searchHead == "You are answering a query that contains specific details like error messages, logs, code snippets, exact terminology, version numbers, and context. Use all provided details to give the most accurate answer possible.\n\nQuery: "
searchTail == "\n\nProvide a clear, concise answer that directly addresses the specific details in the query."

searchPrompt(query) == <<searchHead>> \o query \o <<searchTail>>

reasonHead == "You are answering a query that contains specific details like error messages, logs, code snippets, exact terminology, version numbers, and context. Carefully analyze all provided details to give the most accurate and helpful answer.\n\nQuery: "
reasonTail == "\n\nProvide a detailed explanation and analysis that:\n1. Addresses the specific details provided (errors, logs, code, versions, etc.)\n2. Includes step-by-step reasoning based on the actual context\n3. Identifies key considerations relevant to the specific situation\n4. Provides relevant examples matching the described scenario\n5. Offers practical implications based on the exact details provided\n6. Suggests potential alternatives or solutions tailored to the specific context"

reasonPrompt_lowerCased(query) ==
  <<reasonHead>> \o toLowerCase(query) \o <<reasonTail>>

reasonPrompt(query) == <<reasonHead>> \o query \o <<reasonTail>>

\* focus_areas.map((area, i) => `${i + 1}. ${area}`)
numberedAreas_fromZero(focus_areas) ==
  [k \in 1..Len(focus_areas) |-> String(k - 1) \o <<". ">> \o focus_areas[k]]

numberedAreas(focus_areas) ==
  [k \in 1..Len(focus_areas) |-> String(k) \o <<". ">> \o focus_areas[k]]

deepResearchHead == "You are answering a research query that contains specific details like error messages, logs, code snippets, exact terminology, version numbers, and context. Use all provided details to conduct the most accurate and comprehensive research.\n\nResearch Query: "
focusAreasHeader == "\n\nFocus areas:\n"
deepResearchTail == "\n\nProvide a detailed analysis that:\n1. Incorporates and addresses all specific details provided (errors, logs, code, versions, configurations, etc.)\n2. Provides background and context relevant to the specific scenario described\n3. Defines key concepts and terminology matching the exact terms used\n4. Presents the current state of knowledge relevant to the specific problem or topic\n5. Explores different perspectives applicable to the described situation\n6. Covers recent developments that relate to the specific details provided\n7. Discusses practical applications relevant to the exact context\n8. Identifies challenges and limitations specific to the scenario\n9. Suggests future directions or solutions based on the specific details\n10. Includes expert opinions and references to sources that address the specific issue\n11. Tailors all recommendations to the exact technical context, versions, and environment described"

deepResearchPrompt(query, arguments) ==
  LET focus_areas ==
        IF "focus_areas" \in DOMAIN arguments THEN arguments.focus_areas
                                              ELSE <<>>
  IN <<deepResearchHead>>
     \o query
     \o (IF Len(focus_areas) > 0
           THEN <<focusAreasHeader>> \o join(numberedAreas(focus_areas), <<LF>>)
           ELSE <<>>)
     \o <<deepResearchTail>>

\* The operations the switch knows.
KnownTools == {"search", "reason", "deep_research"}

\* A resolution that reclassifies a search whatever force_model says.
resolveSelectedTool_ignoringForce(name, query, force_model) ==
  IF name = "search"
    THEN LET complexity == determineQueryComplexity(query) IN
         IF complexity = "complex" THEN "reason"
         ELSE IF complexity = "research" THEN "deep_research"
         ELSE name
    ELSE name

\* A resolution that lacks the research branch.
resolveSelectedTool_withoutResearch(name, query, force_model) ==
  IF ~force_model /\ name = "search"
    THEN IF determineQueryComplexity(query) = "simple" THEN name ELSE "reason"
    ELSE name

\* let selectedTool = request.params.name, promoted when the request is a
\* search that does not force its model.
resolveSelectedTool(name, query, force_model) ==
  IF ~force_model /\ name = "search"
    THEN LET complexity == determineQueryComplexity(query) IN
         IF complexity = "complex" THEN "reason"
         ELSE IF complexity = "research" THEN "deep_research"
         ELSE name
    ELSE name

\* A switch whose reason case names the model of the search case.
modelOf_reasonOnSonarPro(selectedTool) ==
  CASE selectedTool = "search" -> "sonar-pro"
    [] selectedTool = "reason" -> "sonar-pro"
    [] selectedTool = "deep_research" -> "sonar-deep-research"

\* The model and the prompt the switch assigns for a known selectedTool.
modelOf(selectedTool) ==
  CASE selectedTool = "search" -> "sonar-pro"
    [] selectedTool = "reason" -> "sonar-reasoning-pro"
    [] selectedTool = "deep_research" -> "sonar-deep-research"

promptOf(selectedTool, query, arguments) ==
  CASE selectedTool = "search" -> searchPrompt(query)
    [] selectedTool = "reason" -> reasonPrompt(query)
    [] selectedTool = "deep_research" -> deepResearchPrompt(query, arguments)

\* The body handed to axiosInstance.post("/chat/completions", ...).
chatCompletionsBody(selectedTool, query, arguments) ==
  [model |-> modelOf(selectedTool),
   messages |-> <<[role |-> "user",
                   content |-> promptOf(selectedTool, query, arguments)]>>]

-----------------------------------------------------------------------------
(* Errors and the catch block *)

McpError(code, message) ==
  [name |-> "McpError", code |-> code, message |-> message]

\* What evaluating a property of undefined throws.
TypeError == [name |-> "TypeError"]

unknownTool(name) == McpError("MethodNotFound", <<"Unknown tool: ", name>>)

isAxiosError(error) == error.name = "AxiosError"

\* A message that never looks at the response of the backend.
upstreamOrTransportMessage_transportOnly(error) == error.message

\* error.response?.data?.error?.message || error.message
upstreamOrTransportMessage(error) ==
  IF /\ "response" \in DOMAIN error
     /\ "error" \in DOMAIN error.response.data
     /\ "message" \in DOMAIN error.response.data.error
     /\ Len(error.response.data.error.message) > 0
    THEN error.response.data.error.message
    ELSE error.message

\* A catch block that wraps every error, not only those of axios.
catch_wrappingAll(error) ==
  McpError("InternalError",
           <<"Perplexity API error: ">>
           \o (IF isAxiosError(error) THEN upstreamOrTransportMessage(error)
                                      ELSE <<>>))

\* catch (error) { ... }: what the handler finally throws.
catch(error) ==
  IF isAxiosError(error)
    THEN McpError("InternalError",
                  <<"Perplexity API error: ">> \o upstreamOrTransportMessage(error))
    ELSE error

-----------------------------------------------------------------------------
(* Post-processing of the backend's reply *)

\* A numbering that counts from 0.
numberedCitations_fromZero(citations) ==
  [k \in 1..Len(citations) |-> String(k - 1) \o <<": ">> \o citations[k]]

\* response.data.citations.map((c, i) => `${i + 1}: ${c}`)
numberedCitations(citations) ==
  [k \in 1..Len(citations) |-> String(k) \o <<": ">> \o citations[k]]

SourcesHeader == "\n\n## Sources\nPlease keep the numbered citations inline.\n"

\* An array, even an empty one, is truthy; an absent field is undefined.
sourcesText(data) ==
  IF "citations" \in DOMAIN data
    THEN <<SourcesHeader>> \o join(numberedCitations(data.citations), <<LF>>)
    ELSE <<>>

\* missingDetails.map((detail, i) => `${i + 1}. ${detail}`)
numberedDetails(missingDetails) ==
  [k \in 1..Len(missingDetails) |-> String(k) \o <<". ">> \o missingDetails[k]]

NoteHeader == "\n\n---\n\n**Note**: I didn't have the following details which would help provide a more specific and accurate answer:\n\n"
NoteFooter == "\n\nIf you'd like a more precise response, please provide these details and ask again."

missingDetailsNote(missingDetails) ==
  IF Len(missingDetails) > 0
    THEN <<NoteHeader>> \o join(numberedDetails(missingDetails), <<LF>>)
         \o <<NoteFooter>>
    ELSE <<>>

\* A text whose note comes before its sources.
responseText_noteBeforeSources(data, missingDetails) ==
  data.choices[1].message.content \o missingDetailsNote(missingDetails)
  \o sourcesText(data)

\* A text in which the note takes the place of the answer.
responseText_noteInsteadOfAnswer(data, missingDetails) ==
  IF Len(missingDetails) > 0
    THEN sourcesText(data) \o missingDetailsNote(missingDetails)
    ELSE data.choices[1].message.content \o sourcesText(data)

\* The text the handler returns for a reply whose choices[0] exists.
responseText(data, missingDetails) ==
  data.choices[1].message.content \o sourcesText(data)
  \o missingDetailsNote(missingDetails)


-----------------------------------------------------------------------------
(* Resolution of the API key at process start *)

DoubleQuote == "<doublequote>"

\* JavaScript's null and undefined, as values no text is equal to.
null == <<"<null>">>
undefined == <<"<undefined>">>

\* The truthiness test of an if over a string, null or undefined.
Truthy(v) == v \notin {null, undefined, <<>>}

startsWith(s, prefix) ==
  Len(prefix) <= Len(s) /\ SubSeq(s, 1, Len(prefix)) = prefix

endsWith(s, suffix) ==
  Len(suffix) <= Len(s) /\ SubSeq(s, Len(s) - Len(suffix) + 1, Len(s)) = suffix

\* String.prototype.trim: white space is dropped at both ends.
trim(s) ==
  LET kept == {k \in DOMAIN s : ~IsSpace(s[k])} IN
  IF kept = {} THEN <<>>
  ELSE SubSeq(s, CHOOSE k \in kept : \A j \in kept : k <= j,
                 CHOOSE k \in kept : \A j \in kept : j <= k)

\* content.split('\n'): the runs between line feeds; an empty text is one
\* empty line.
RECURSIVE split(_)
split(s) ==
  IF \E k \in DOMAIN s : s[k] = LF
    THEN LET first == CHOOSE k \in DOMAIN s :
                        s[k] = LF /\ \A j \in 1..(k - 1) : s[j] # LF IN
         <<SubSeq(s, 1, first - 1)>> \o split(SubSeq(s, first + 1, Len(s)))
    ELSE <<s>>

KeyPrefix == <<"P", "E", "R", "P", "L", "E", "X", "I", "T", "Y", "_", "A", "P", "I", "_", "K", "E", "Y", "=">>

\* The for loop of extractApiKey over the lines still to be read.
RECURSIVE extractFromLines(_)
extractFromLines(lines) ==
  IF lines = <<>> THEN null
  ELSE
    LET trimmed == trim(Head(lines)) IN
    IF trimmed = <<>> \/ startsWith(trimmed, <<"#">>)
      THEN extractFromLines(Tail(lines))
    ELSE IF startsWith(trimmed, KeyPrefix)
      THEN LET value == trim(SubSeq(trimmed, Len(KeyPrefix) + 1, Len(trimmed)))
               clean ==
                 IF \/ startsWith(value, <<DoubleQuote>>) /\ endsWith(value, <<DoubleQuote>>)
                    \/ startsWith(value, <<"'">>) /\ endsWith(value, <<"'">>)
                   THEN SubSeq(value, 2, Len(value) - 1)
                   ELSE value
           IN IF Len(clean) > 0 THEN clean
                                ELSE extractFromLines(Tail(lines))
    ELSE extractFromLines(Tail(lines))

extractApiKey(content) == extractFromLines(split(content))

\* The .env file of a directory: absent, unreadable, or readable with its
\* content.
NoFile == [exists |-> FALSE]
Unreadable == [exists |-> TRUE, readable |-> FALSE]
File(content) == [exists |-> TRUE, readable |-> TRUE, content |-> content]

FileOf(files, dir) == IF dir \in DOMAIN files THEN files[dir] ELSE NoFile

readEnvFile(dir, files) ==
  LET file == FileOf(files, dir) IN
  IF ~file.exists THEN null
  ELSE IF file.readable THEN extractApiKey(file.content)
  ELSE null

\* minimist(process.argv.slice(2), {string: ['api-key', 'cwd'],
\* alias: {'api-key': 'apiKey'}}) for long options given at most once each
\* and positional arguments.  The result maps option names to values.
jsTrue == <<"<true>">>

StringOptions == {<<"a", "p", "i", "-", "k", "e", "y">>, <<"a", "p", "i", "K", "e", "y">>, <<"c", "w", "d">>}

AliasesOf(key) ==
  IF key = <<"a", "p", "i", "-", "k", "e", "y">> THEN {<<"a", "p", "i", "K", "e", "y">>}
  ELSE IF key = <<"a", "p", "i", "K", "e", "y">> THEN {<<"a", "p", "i", "-", "k", "e", "y">>}
  ELSE {}

\* setArg: the value is stored under the key and under its aliases.
setArg(parsed, key, value) ==
  [k \in {key} \cup AliasesOf(key) |-> value] @@ parsed

\* /^--.+=/
IsLongWithValue(arg) ==
  /\ startsWith(arg, <<"-", "-">>)
  /\ \E k \in 4..Len(arg) : arg[k] = "="

FirstEquals(arg) ==
  CHOOSE k \in 3..Len(arg) : arg[k] = "=" /\ \A j \in 3..(k - 1) : arg[j] # "="

\* /^--.+/
IsLong(arg) == startsWith(arg, <<"-", "-">>) /\ Len(arg) > 2

\* /^(-|--)[^-]/
LooksLikeOption(arg) ==
  \/ Len(arg) >= 2 /\ arg[1] = "-" /\ arg[2] # "-"
  \/ Len(arg) >= 3 /\ arg[1] = "-" /\ arg[2] = "-" /\ arg[3] # "-"

RECURSIVE minimistFrom(_, _, _)
minimistFrom(args, i, parsed) ==
  IF i > Len(args) THEN parsed
  ELSE
    LET arg == args[i] IN
    IF IsLongWithValue(arg)
      THEN minimistFrom(args, i + 1,
             setArg(parsed, SubSeq(arg, 3, FirstEquals(arg) - 1),
                    SubSeq(arg, FirstEquals(arg) + 1, Len(arg))))
    ELSE IF IsLong(arg)
      THEN LET key == SubSeq(arg, 3, Len(arg)) IN
           IF i < Len(args) /\ ~LooksLikeOption(args[i + 1])
             THEN minimistFrom(args, i + 2, setArg(parsed, key, args[i + 1]))
             ELSE minimistFrom(args, i + 1,
                    setArg(parsed, key,
                           IF key \in StringOptions THEN <<>> ELSE jsTrue))
    ELSE minimistFrom(args, i + 1,
           [parsed EXCEPT ![<<"_">>] = Append(@, arg)])

minimist(args) == minimistFrom(args, 1, [k \in {<<"_">>} |-> <<>>])

\* args[key]: undefined for an option that was not given.
Get(parsed, key) == IF key \in DOMAIN parsed THEN parsed[key] ELSE undefined

Redacted == <<"*", "*", "*", "R", "E", "D", "A", "C", "T", "E", "D", "*", "*", "*">>

\* The loop of sanitizeArgs from index i on; it reads the arguments it has
\* already overwritten.
RECURSIVE sanitizeFrom(_, _)
sanitizeFrom(args, i) ==
  IF i > Len(args) THEN args
  ELSE IF args[i] = <<"-", "-", "a", "p", "i", "-", "k", "e", "y">> /\ i + 1 <= Len(args)
    THEN sanitizeFrom([args EXCEPT ![i + 1] = Redacted], i + 1)
  ELSE IF startsWith(args[i], <<"-", "-", "a", "p", "i", "-", "k", "e", "y", "=">>)
    THEN sanitizeFrom([args EXCEPT ![i] = <<"-", "-", "a", "p", "i", "-", "k", "e", "y", "=">> \o Redacted], i + 1)
  ELSE sanitizeFrom(args, i + 1)

\* process.argv holds the node binary and the script before these
\* arguments; neither is an option.
sanitizeArgs(args) == sanitizeFrom(args, 1)

\* The first line of the message getApiKey throws.
ApiKeyRequired == "Perplexity API key is required. Please provide it using one of these three methods (in priority order):"

Error(message) == [name |-> "Error", message |-> message]

EnvKey(environment) ==
  IF "PERPLEXITY_API_KEY" \in DOMAIN environment
    THEN environment.PERPLEXITY_API_KEY
    ELSE undefined

\* A resolution that prefers the environment variable to the argument.
getApiKey_envFirst(parsed, environment, files) ==
  LET cwd == Get(parsed, <<"c", "w", "d">>) IN
  IF Truthy(EnvKey(environment))
    THEN [kind |-> "return", value |-> EnvKey(environment),
          sanitized |-> FALSE, reads |-> <<>>]
  ELSE IF Truthy(Get(parsed, <<"a", "p", "i", "-", "k", "e", "y">>))
    THEN [kind |-> "return", value |-> Get(parsed, <<"a", "p", "i", "-", "k", "e", "y">>),
          sanitized |-> TRUE, reads |-> <<>>]
  ELSE IF Truthy(cwd) /\ Truthy(readEnvFile(cwd, files))
    THEN [kind |-> "return", value |-> readEnvFile(cwd, files),
          sanitized |-> FALSE, reads |-> <<cwd>>]
  ELSE [kind |-> "throw", error |-> Error(ApiKeyRequired),
        sanitized |-> FALSE,
        reads |-> IF Truthy(cwd) THEN <<cwd>> ELSE <<>>]

\* getApiKey: what it returns or throws, whether it called sanitizeArgs, and
\* the directories whose .env file it looked for.
getApiKey(parsed, environment, files) ==
  LET cwd == Get(parsed, <<"c", "w", "d">>) IN
  IF Truthy(Get(parsed, <<"a", "p", "i", "-", "k", "e", "y">>))
    THEN [kind |-> "return", value |-> Get(parsed, <<"a", "p", "i", "-", "k", "e", "y">>),
          sanitized |-> TRUE, reads |-> <<>>]
  ELSE IF Truthy(EnvKey(environment))
    THEN [kind |-> "return", value |-> EnvKey(environment),
          sanitized |-> FALSE, reads |-> <<>>]
  ELSE IF Truthy(cwd) /\ Truthy(readEnvFile(cwd, files))
    THEN [kind |-> "return", value |-> readEnvFile(cwd, files),
          sanitized |-> FALSE, reads |-> <<cwd>>]
  ELSE [kind |-> "throw", error |-> Error(ApiKeyRequired),
        sanitized |-> FALSE,
        reads |-> IF Truthy(cwd) THEN <<cwd>> ELSE <<>>]
-----------------------------------------------------------------------------
(* The inputs: requests of the caller, replies and failures of the backend *)

\* Bounds of the model.
NumInvocations == 2
MaxFocusAreas == 2
MaxCitations == 2

Invocations == 1..NumInvocations

UnknownNames == {"Search", "deepResearch"}
Names == KnownTools \cup UnknownNames

\* Queries: the examples of the documentation and of the test script, and
\* queries that exercise each branch of the classifier and of the detector.
QEmpty == <<>>
QCapital == <<"W", "h", "a", "t", " ", "i", "s", " ", "t", "h", "e", " ", "c", "a", "p", "i", "t", "a", "l", " ", "o", "f", " ", "F", "r", "a", "n", "c", "e", "?">>
QFixError == <<"H", "o", "w", " ", "d", "o", " ", "I", " ", "f", "i", "x", " ", "t", "h", "i", "s", " ", "e", "r", "r", "o", "r", "?">>
QCompare == <<"C", "o", "m", "p", "a", "r", "e", " ", "a", "n", "d", " ", "c", "o", "n", "t", "r", "a", "s", "t", " ", "R", "E", "S", "T", " ", "a", "n", "d", " ", "G", "r", "a", "p", "h", "Q", "L">>
QShow == <<"s", "h", "o", "w", " ", "m", "e", " ", "P", "a", "r", "i", "s">>
QResearch == <<"R", "E", "S", "E", "A", "R", "C", "H", " ", "R", "u", "s", "t", " ", "1", ".", "7", "0">>
QFixBug == <<"f", "i", "x", " ", "b", "u", "g">>
QReact == <<"M", "y", " ", "R", "e", "a", "c", "t", " ", "a", "p", "p", " ", "i", "s", " ", "b", "r", "o", "k", "e", "n", " ", "o", "n", " ", "N", "o", "d", "e", ".", "j", "s">>
QErrorCode == <<"E", "r", "r", "o", "r", ":", " ", "x", LF, Backtick, Backtick, Backtick, "j", "s", LF, "o", "b", "j", ".", "x", " ", "=", " ", "5", ";", LF, Backtick, Backtick, Backtick>>

Queries ==
  {QEmpty, QCapital, QFixError, QCompare, QShow, QResearch, QFixBug, QReact,
   QErrorCode}

Areas == { <<"A">>, <<"B">> }
UrlX == <<"h", "t", "t", "p", ":", "/", "/", "x">>
UrlY == <<"h", "t", "t", "p", ":", "/", "/", "y">>
Urls == {UrlX, UrlY}
Answers == { <<"a", "n", "s">>, <<"P", "a", "r", "i", "s", " ", "[", "1", "]", "[", "2", "]">> }

\* The sequences over S of length at most n.
SeqUpTo(S, n) == UNION {[1..m -> S] : m \in 0..n}

\* request.params.arguments: query is required, the other fields optional.
ArgumentsSet ==
  LET Focus == SeqUpTo(Areas, MaxFocusAreas) IN
  {[query |-> q] : q \in Queries}
  \cup {[query |-> q, force_model |-> f] : q \in Queries, f \in BOOLEAN}
  \cup {[query |-> q, focus_areas |-> a] : q \in Queries, a \in Focus}
  \cup {[query |-> q, force_model |-> TRUE, focus_areas |-> a] :
          q \in Queries, a \in Focus}

\* response.data of a 2xx reply: choices and an optional citations array.  A
\* malformed reply has no choices[0].
ReplyData ==
  LET Choices == {<<[message |-> [content |-> a]]>> : a \in Answers}
  IN {[choices |-> c] : c \in Choices}
     \cup {[choices |-> <<[message |-> [content |-> <<"P", "a", "r", "i", "s", " ", "[", "1", "]", "[", "2", "]">>]]>>,
             citations |-> u] : u \in SeqUpTo(Urls, MaxCitations)}
     \cup {[choices |-> <<>>], [choices |-> <<>>, citations |-> <<UrlX>>]}

\* The errors axios rejects with: without a response (transport), or with
\* the response of a non-2xx status, whose body may carry error.message.
NetworkError == <<"N", "e", "t", "w", "o", "r", "k", " ", "E", "r", "r", "o", "r">>
RequestFailed == <<"R", "e", "q", "u", "e", "s", "t", " ", "f", "a", "i", "l", "e", "d", " ", "w", "i", "t", "h", " ", "s", "t", "a", "t", "u", "s", " ", "c", "o", "d", "e", " ", "4", "0", "1">>
InvalidApiKey == <<"I", "n", "v", "a", "l", "i", "d", " ", "A", "P", "I", " ", "k", "e", "y">>

AxiosErrors ==
  {[name |-> "AxiosError", message |-> NetworkError]}
  \cup {[name |-> "AxiosError",
         message |-> RequestFailed,
         response |-> [data |-> d]] :
          d \in {[error |-> [message |-> InvalidApiKey]],
                 [error |-> [message |-> <<>>]],
                 [error |-> [type |-> "invalid_request"]],
                 [detail |-> "Unauthorized"]}}

-----------------------------------------------------------------------------
(* The state *)

VARIABLES
  pc,             \* per invocation: "idle", "awaiting" (suspended at the post), "done"
  request,        \* request.params of the invocation
  selectedTool,   \* the handler's local selectedTool
  posted,         \* the bodies the invocation posted to /chat/completions
  settled,        \* how the post settled: the response it resolved with or
                  \* the error it rejected with
  missingDetails, \* the handler's local missingDetails
  outcome,        \* what the handler returned or threw
  axiosInstance,  \* the client configuration built by the constructor
  testCase,       \* the query a method is called on directly, as the test script does
  testResult,     \* what that call returned
  argv,           \* process.argv.slice(2)
  args,           \* what minimist made of the arguments
  env,            \* process.env
  fs,             \* the .env file of each directory, if it exists
  fsReads,        \* the directories whose .env file was looked for
  apiKey,         \* what getApiKey returned or threw
  startup         \* how far the module-level code has run

handlerVars ==
  <<pc, request, selectedTool, posted, settled, missingDetails, outcome, axiosInstance>>
testVars == <<testCase, testResult>>
startupVars == <<argv, args, env, fs, fsReads, apiKey, startup>>
vars == <<handlerVars, testVars, startupVars>>

PERPLEXITY_API_KEY == <<"p", "p", "l", "x", "-", "k", "e", "y">>

\* axios.create({baseURL, headers}) of the constructor.
axiosCreate(key) ==
  [baseURL |-> "https://api.perplexity.ai",
   headers |-> [Authorization |-> <<"Bearer ">> \o key,
                ContentType |-> "application/json"]]

\* No request has come in.
NoInvocation ==
  /\ pc = [i \in Invocations |-> "idle"]
  /\ request = [i \in Invocations |-> [name |-> ""]]
  /\ selectedTool = [i \in Invocations |-> ""]
  /\ posted = [i \in Invocations |-> <<>>]
  /\ settled = [i \in Invocations |-> [kind |-> "pending"]]
  /\ missingDetails = [i \in Invocations |-> <<>>]
  /\ outcome = [i \in Invocations |-> [kind |-> "pending"]]

\* The handler before any request.
InitHandler ==
  /\ NoInvocation
  /\ axiosInstance = axiosCreate(PERPLEXITY_API_KEY)

\* No method is called directly.
NoTest ==
  /\ testCase = [query |-> <<>>]
  /\ testResult = [kind |-> "none"]

\* The process started with its key in the environment.
StartedFromEnv ==
  /\ argv = <<>>
  /\ args = minimist(<<>>)
  /\ env = [PATH |-> "/usr/bin", PERPLEXITY_API_KEY |-> PERPLEXITY_API_KEY]
  /\ fs = [d \in {<<"/", "p">>} |-> NoFile]
  /\ fsReads = <<>>
  /\ apiKey = [kind |-> "return", value |-> PERPLEXITY_API_KEY]
  /\ startup = "running"

Init == InitHandler /\ NoTest /\ StartedFromEnv

Return(text) == [kind |-> "return", content |-> <<[type |-> "text", text |-> text]>>]
Throw(error) == [kind |-> "throw", error |-> catch(error)]

\* The handler from its entry to the await of the post, or to the throw of
\* the default case.
CallTool(i, name, arguments) ==
  /\ pc[i] = "idle"
  /\ LET query == arguments.query
         force_model == IF "force_model" \in DOMAIN arguments
                          THEN arguments.force_model ELSE FALSE
         tool == resolveSelectedTool(name, query, force_model)
     IN /\ request' = [request EXCEPT ![i] = [name |-> name, arguments |-> arguments]]
        /\ selectedTool' = [selectedTool EXCEPT ![i] = tool]
        /\ IF tool \in KnownTools
             THEN /\ posted' = [posted EXCEPT
                       ![i] = Append(@, chatCompletionsBody(tool, query, arguments))]
                  /\ pc' = [pc EXCEPT ![i] = "awaiting"]
                  /\ UNCHANGED outcome
             ELSE /\ outcome' = [outcome EXCEPT ![i] = Throw(unknownTool(name))]
                  /\ pc' = [pc EXCEPT ![i] = "done"]
                  /\ UNCHANGED posted
  /\ UNCHANGED <<settled, missingDetails, axiosInstance, testVars, startupVars>>

\* A continuation that returns the text built so far when choices[0] is
\* missing.
PostResolved_partialText(i, response) ==
  /\ pc[i] = "awaiting"
  /\ settled' = [settled EXCEPT ![i] = [kind |-> "resolved", response |-> response]]
  /\ LET details == detectMissingDetails(request[i].arguments.query) IN
     /\ missingDetails' = [missingDetails EXCEPT ![i] = details]
     /\ outcome' = [outcome EXCEPT
          ![i] = IF Len(response.data.choices) = 0
                   THEN Return(sourcesText(response.data))
                   ELSE Return(responseText(response.data, details))]
  /\ pc' = [pc EXCEPT ![i] = "done"]
  /\ UNCHANGED <<request, selectedTool, posted, axiosInstance, testVars, startupVars>>

\* A continuation that never ends when choices[0] is missing.
PostResolved_hangingOnMalformed(i, response) ==
  /\ pc[i] = "awaiting"
  /\ settled' = [settled EXCEPT ![i] = [kind |-> "resolved", response |-> response]]
  /\ LET details == detectMissingDetails(request[i].arguments.query) IN
     /\ missingDetails' = [missingDetails EXCEPT ![i] = details]
     /\ IF Len(response.data.choices) = 0
          THEN /\ pc' = [pc EXCEPT ![i] = "hung"]
               /\ UNCHANGED outcome
          ELSE /\ outcome' = [outcome EXCEPT
                    ![i] = Return(responseText(response.data, details))]
               /\ pc' = [pc EXCEPT ![i] = "done"]
  /\ UNCHANGED <<request, selectedTool, posted, axiosInstance, testVars, startupVars>>

\* A continuation that reads the query from a field shared by all
\* invocations, which holds the query of the latest request.
PostResolved_sharedQuery(i, response) ==
  /\ pc[i] = "awaiting"
  /\ settled' = [settled EXCEPT ![i] = [kind |-> "resolved", response |-> response]]
  /\ LET latest == CHOOSE j \in Invocations :
                     /\ pc[j] # "idle"
                     /\ \A k \in Invocations : pc[k] # "idle" => k <= j
         details == detectMissingDetails(request[latest].arguments.query) IN
     /\ missingDetails' = [missingDetails EXCEPT ![i] = details]
     /\ outcome' = [outcome EXCEPT
          ![i] = IF Len(response.data.choices) = 0
                   THEN Throw(TypeError)
                   ELSE Return(responseText(response.data, details))]
  /\ pc' = [pc EXCEPT ![i] = "done"]
  /\ UNCHANGED <<request, selectedTool, posted, axiosInstance, testVars, startupVars>>

\* The post resolves with a 2xx response: the rest of the try block.
PostResolved(i, response) ==
  /\ pc[i] = "awaiting"
  /\ settled' = [settled EXCEPT ![i] = [kind |-> "resolved", response |-> response]]
  /\ LET details == detectMissingDetails(request[i].arguments.query) IN
     /\ missingDetails' = [missingDetails EXCEPT ![i] = details]
     /\ outcome' = [outcome EXCEPT
          ![i] = IF Len(response.data.choices) = 0
                   THEN Throw(TypeError)
                   ELSE Return(responseText(response.data, details))]
  /\ pc' = [pc EXCEPT ![i] = "done"]
  /\ UNCHANGED <<request, selectedTool, posted, axiosInstance, testVars, startupVars>>

\* A catch block that posts the prompt again, to the search model.
PostRejected_retrying(i, error) ==
  /\ pc[i] = "awaiting"
  /\ settled' = [settled EXCEPT ![i] = [kind |-> "rejected", error |-> error]]
  /\ posted' = [posted EXCEPT
       ![i] = Append(@, [model |-> "sonar-pro", messages |-> @[1].messages])]
  /\ UNCHANGED <<pc, request, selectedTool, missingDetails, outcome, axiosInstance,
                 testVars, startupVars>>

\* The post rejects: the catch block.
PostRejected(i, error) ==
  /\ pc[i] = "awaiting"
  /\ settled' = [settled EXCEPT ![i] = [kind |-> "rejected", error |-> error]]
  /\ outcome' = [outcome EXCEPT ![i] = Throw(error)]
  /\ pc' = [pc EXCEPT ![i] = "done"]
  /\ UNCHANGED <<request, selectedTool, posted, missingDetails, axiosInstance,
                 testVars, startupVars>>

\* One invocation of the handler, with every input.
Next ==
  \/ \E name \in Names, arguments \in ArgumentsSet : CallTool(1, name, arguments)
  \/ \E data \in ReplyData : PostResolved(1, [data |-> data])
  \/ \E error \in AxiosErrors : PostRejected(1, error)

Spec == Init /\ [][Next]_vars


\* ---------------------------------------------------------------------
\* Direct calls of the two analysis methods, as the test script makes them
\* ---------------------------------------------------------------------

MaxFragments == 3

\* All texts made of at most n fragments of F, in any order.
RECURSIVE Concatenations(_, _)
Concatenations(F, n) ==
  IF n = 0 THEN {<<>>}
  ELSE LET shorter == Concatenations(F, n - 1) IN
       shorter \cup {s \o f : s \in shorter, f \in F}

\* Pieces of queries given to the classifier: indicators of both lists in
\* several cases, pieces of indicators, and text that is no indicator.
ClassifierFragments ==
  { <<"c", "o", "m", "p", "a", "r", "e">>, <<" ", "a", "n", "d", " ">>, <<"c", "o", "n", "t", "r", "a", "s", "t">>, <<"h", "o", "w">>, <<"H", "O", "W">>, <<"s">>,
    <<"S", "t", "u", "d", "y">>, <<" ">>, <<"c", "a", "t">>, <<"w", "h", "a", "t">>, <<"i", "f">> }

ClassifierQueries ==
  Concatenations(ClassifierFragments, MaxFragments) \cup {QCapital, QCompare, QShow}

InitClassify ==
  /\ InitHandler /\ StartedFromEnv
  /\ testCase \in [query : ClassifierQueries]
  /\ testResult = [kind |-> "none"]

\* server.determineQueryComplexity(testCase.query)
Classify ==
  /\ testResult.kind = "none"
  /\ testResult' = [kind |-> "complexity",
                    value |-> determineQueryComplexity(testCase.query)]
  /\ UNCHANGED <<testCase, handlerVars, startupVars>>

NextClassify == Classify

SpecClassify == InitClassify /\ [][NextClassify]_vars

\* The six signals detectMissingDetails computes from a query.
signals(query) ==
  [hasErrors |-> hasErrors(query),
   hasCode |-> hasCode(query),
   hasVersions |-> hasVersions(query),
   hasSpecificNames |-> hasSpecificNames(query),
   hasLogs |-> hasLogs(query),
   hasEnvironment |-> hasEnvironment(query)]

QCodeSnippet ==
  <<"H", "o", "w", " ", "d", "o", " ", "I", " ", "f", "i", "x", " ", "t", "h", "i", "s", " ", "e", "r", "r", "o", "r", "?", LF, Backtick, Backtick, Backtick, "j", "a", "v", "a", "s", "c", "r", "i", "p", "t", LF, "f", "u", "n", "c", "t", "i", "o", "n", " ", "t", "e", "s", "t", "(", ")", " ", "{", " ", "c", "o", "n", "s", "o", "l", "e", ".", "l", "o", "g", "(", "'", "e", "r", "r", "o", "r", "'", ")", ";", " ", "}", LF, Backtick, Backtick, Backtick>>
QErrorAndCode ==
  <<"E", "r", "r", "o", "r", ":", " ", "C", "a", "n", "n", "o", "t", " ", "r", "e", "a", "d", " ", "p", "r", "o", "p", "e", "r", "t", "y", " ", "'", "x", "'", " ", "o", "f", " ", "u", "n", "d", "e", "f", "i", "n", "e", "d", LF, LF, Backtick, Backtick, Backtick, "j", "s", LF, "c", "o", "n", "s", "t", " ", "o", "b", "j", " ", "=", " ", "n", "u", "l", "l", ";", LF, "o", "b", "j", ".", "x", " ", "=", " ", "5", ";", LF, Backtick, Backtick, Backtick>>
QGettingError == <<"I", "'", "m", " ", "g", "e", "t", "t", "i", "n", "g", " ", "a", "n", " ", "e", "r", "r", "o", "r", " ", "i", "n", " ", "m", "y", " ", "c", "o", "d", "e">>
QVersions == <<"M", "y", " ", "R", "e", "a", "c", "t", " ", "1", "8", ".", "2", ".", "0", " ", "a", "p", "p", " ", "i", "s", " ", "b", "r", "o", "k", "e", "n", " ", "o", "n", " ", "N", "o", "d", "e", ".", "j", "s", " ", "2", "0", ".", "5", ".", "0">>

\* The test cases of the test script.
testCases ==
  << [name |-> "Vague query (should detect missing details)",
      query |-> QFixError, expectedMissing |-> TRUE],
     [name |-> "Query with error but no code/logs",
      query |-> QGettingError, expectedMissing |-> TRUE],
     [name |-> "Query with code snippet (should pass)",
      query |-> QCodeSnippet, expectedMissing |-> FALSE],
     [name |-> "Query with error and code",
      query |-> QErrorAndCode, expectedMissing |-> FALSE],
     [name |-> "Query with environment but no version",
      query |-> QReact, expectedMissing |-> TRUE],
     [name |-> "Query with versions",
      query |-> QVersions, expectedMissing |-> FALSE],
     [name |-> "Simple factual query (should pass)",
      query |-> QCapital, expectedMissing |-> FALSE] >>

MaxPieces == 4

Filler == [k \in 1..100 |-> "-"]

\* With "fix " a text of exactly 50 characters.
Padding == [k \in 1..46 |-> "-"]

\* Pieces of queries given to the detector; each sets off some of the
\* patterns of the six signals, the last ones none.
DetectorPieces ==
  << <<"e", "r", "r", "o", "r", " ">>, <<"a", "t", " ", "a", ".", "b", " ">>, <<Backtick, Backtick, Backtick>>, <<"f", "(", ")", " ">>,
     <<"1", ".", "2", " ">>, <<"l", "o", "g", LF>>, <<"l", "o", "g", " ">>, <<"n", "o", "d", "e", " ">>, <<":", ":", "x", " ">>, <<"f", "i", "x", " ">>,
     <<"o", "k", " ">>, Padding, Filler >>

\* The chosen pieces, in the order of DetectorPieces.
RECURSIVE Pieces(_, _)
Pieces(chosen, from) ==
  IF from > Len(DetectorPieces) THEN <<>>
  ELSE (IF from \in chosen THEN DetectorPieces[from] ELSE <<>>)
       \o Pieces(chosen, from + 1)

DetectorQueries ==
  {Pieces(chosen, 1) :
     chosen \in {c \in SUBSET DOMAIN DetectorPieces : Cardinality(c) <= MaxPieces}}

InitDetect ==
  /\ InitHandler /\ StartedFromEnv
  /\ testCase \in [query : DetectorQueries]
                  \cup {testCases[k] : k \in DOMAIN testCases}
  /\ testResult = [kind |-> "none"]

\* server.detectMissingDetails(testCase.query)
Detect ==
  /\ testResult.kind = "none"
  /\ "expectedMissing" \notin DOMAIN testCase
  /\ testResult' = [kind |-> "missing",
                    signals |-> signals(testCase.query),
                    value |-> detectMissingDetails(testCase.query)]
  /\ UNCHANGED <<testCase, handlerVars, startupVars>>

\* The body of testCases.forEach for one test case.
RunTestCase ==
  /\ testResult.kind = "none"
  /\ "expectedMissing" \in DOMAIN testCase
  /\ LET missing == detectMissingDetails(testCase.query)
         hasMissing == Len(missing) > 0
         passed == hasMissing = testCase.expectedMissing IN
     testResult' = [kind |-> "missing",
                    signals |-> signals(testCase.query),
                    value |-> missing,
                    hasMissing |-> hasMissing,
                    passed |-> passed]
  /\ UNCHANGED <<testCase, handlerVars, startupVars>>

NextDetect == Detect \/ RunTestCase

SpecDetect == InitDetect /\ [][NextDetect]_vars

\* ---------------------------------------------------------------------
\* Process start: the arguments are parsed, the key is resolved, the
\* server is constructed
\* ---------------------------------------------------------------------

MaxArgs == 3

KeyK == <<"K", "1">>
KeyE == <<"E">>
KeyF == <<"F">>
KeyG == <<"G">>
DirP == <<"/", "p">>

ArgTokens ==
  { <<"-", "-", "a", "p", "i", "-", "k", "e", "y">>, <<"-", "-", "a", "p", "i", "K", "e", "y">>, <<"-", "-", "a", "p", "i", "-", "k", "e", "y", "=">> \o KeyK, <<"-", "-", "a", "p", "i", "-", "k", "e", "y", "=">>,
    KeyK, <<"-", "-", "c", "w", "d">>, DirP, <<"-", "-", "c", "w", "d", "=">> \o DirP }

NamesOption(arg, options) ==
  \E o \in options : arg = <<"-", "-">> \o o \/ startsWith(arg, <<"-", "-">> \o o \o <<"=">>)

TimesGiven(commandLine, options) ==
  Cardinality({k \in DOMAIN commandLine : NamesOption(commandLine[k], options)})

\* Command lines naming each option at most once (a repeated option makes
\* minimist collect a list of values).
CommandLines ==
  {c \in SeqUpTo(ArgTokens, MaxArgs) :
     /\ TimesGiven(c, {<<"a", "p", "i", "-", "k", "e", "y">>, <<"a", "p", "i", "K", "e", "y">>}) <= 1
     /\ TimesGiven(c, {<<"c", "w", "d">>}) <= 1}

\* process.env: the variable unset, set to the empty text, set to a key.
Environments ==
  { [PATH |-> "/usr/bin"],
    [PATH |-> "/usr/bin", PERPLEXITY_API_KEY |-> <<>>],
    [PATH |-> "/usr/bin", PERPLEXITY_API_KEY |-> KeyE] }

EnvPlain == KeyPrefix \o KeyF
EnvQuoted == <<"#", " ", "k", "e", "y", LF>> \o KeyPrefix \o <<DoubleQuote>> \o KeyF \o <<DoubleQuote, LF>>
EnvSingleQuoted == <<"O", "T", "H", "E", "R", "=", "1", LF, " ", " ">> \o KeyPrefix \o <<" ", "'">> \o KeyF \o <<"'", " ">>
EnvEmptyValue == KeyPrefix \o <<LF, "O", "T", "H", "E", "R", "=", "x">>
EnvCommented == <<"#">> \o KeyPrefix \o KeyF
EnvSecondLine == KeyPrefix \o <<DoubleQuote, DoubleQuote, LF>> \o KeyPrefix \o KeyG

EnvFiles ==
  {NoFile, Unreadable}
  \cup {File(c) : c \in {EnvPlain, EnvQuoted, EnvSingleQuoted, EnvEmptyValue,
                         EnvCommented, EnvSecondLine}}

NotConstructed == [constructed |-> FALSE]

InitStartup ==
  /\ NoInvocation /\ NoTest
  /\ axiosInstance = NotConstructed
  /\ argv \in CommandLines
  /\ args = <<>>
  /\ env \in Environments
  /\ fs \in [{DirP} -> EnvFiles]
  /\ fsReads = <<>>
  /\ apiKey = [kind |-> "pending"]
  /\ startup = "loading"

\* const args = minimist(process.argv.slice(2), ...)
ParseArgs ==
  /\ startup = "loading"
  /\ args' = minimist(argv)
  /\ startup' = "parsed"
  /\ UNCHANGED <<argv, env, fs, fsReads, apiKey, handlerVars, testVars>>

\* const PERPLEXITY_API_KEY = getApiKey(); an error thrown here ends the
\* process.
GetApiKey ==
  /\ startup = "parsed"
  /\ LET result == getApiKey(args, env, fs) IN
     /\ apiKey' = IF result.kind = "return"
                    THEN [kind |-> "return", value |-> result.value]
                    ELSE [kind |-> "throw", error |-> result.error]
     /\ argv' = IF result.sanitized THEN sanitizeArgs(argv) ELSE argv
     /\ fsReads' = result.reads
     /\ startup' = IF result.kind = "return" THEN "resolved" ELSE "failed"
  /\ UNCHANGED <<args, env, fs, handlerVars, testVars>>

\* const server = new PerplexityServer()
Construct ==
  /\ startup = "resolved"
  /\ axiosInstance' = axiosCreate(apiKey.value)
  /\ startup' = "running"
  /\ UNCHANGED <<pc, request, selectedTool, posted, settled, missingDetails, outcome>>
  /\ UNCHANGED <<argv, args, env, fs, fsReads, apiKey, testVars>>

NextStartup == ParseArgs \/ GetApiKey \/ Construct

SpecStartup == InitStartup /\ [][NextStartup]_vars

\* ---------------------------------------------------------------------
\* Several invocations at once: each awaits its own post, and the
\* continuations run in any order
\* ---------------------------------------------------------------------

ConcurrentNames == {"search", "deep_research", "Search"}

ConcurrentArguments ==
  { [query |-> QFixError],
    [query |-> QCapital, force_model |-> TRUE, focus_areas |-> << <<"A">> >>] }

ConcurrentReplies ==
  { [choices |-> <<[message |-> [content |-> <<"a", "n", "s">>]]>>],
    [choices |-> <<[message |-> [content |-> <<"P", "a", "r", "i", "s", " ", "[", "1", "]", "[", "2", "]">>]]>>,
     citations |-> <<UrlX, UrlY>>],
    [choices |-> <<>>] }

ConcurrentErrors ==
  { [name |-> "AxiosError", message |-> RequestFailed,
     response |-> [data |-> [error |-> [message |-> InvalidApiKey]]]] }

NextConcurrent ==
  \/ \E i \in Invocations, name \in ConcurrentNames,
        arguments \in ConcurrentArguments : CallTool(i, name, arguments)
  \/ \E i \in Invocations, data \in ConcurrentReplies :
        PostResolved(i, [data |-> data])
  \/ \E i \in Invocations, error \in ConcurrentErrors : PostRejected(i, error)

SpecConcurrent == Init /\ [][NextConcurrent]_vars

\* Termination is checked with short queries and few replies.
TerminationNames == {"search", "Search"}
TerminationArguments == {[query |-> QEmpty], [query |-> QFixBug]}
TerminationReplies ==
  { [choices |-> <<[message |-> [content |-> <<"a", "n", "s">>]]>>],
    [choices |-> <<>>] }

NextTermination ==
  \/ \E i \in Invocations, name \in TerminationNames,
        arguments \in TerminationArguments : CallTool(i, name, arguments)
  \/ \E i \in Invocations, data \in TerminationReplies :
        PostResolved(i, [data |-> data])
  \/ \E i \in Invocations, error \in ConcurrentErrors : PostRejected(i, error)

\* The backend settles the post of invocation i: it replies or it fails.
Settle(i) ==
  \/ \E data \in TerminationReplies : PostResolved(i, [data |-> data])
  \/ \E error \in ConcurrentErrors : PostRejected(i, error)

\* The backend settles every post it receives.
BackendSettles == \A i \in Invocations : WF_vars(Settle(i))

SpecTermination == Init /\ [][NextTermination]_vars /\ BackendSettles
-----------------------------------------------------------------------------
(* Properties of the handler *)

\* What the caller asked for.
RequestedName(i) == request[i].name
RequestedQuery(i) == request[i].arguments.query
ForceRequested(i) ==
  /\ "force_model" \in DOMAIN request[i].arguments
  /\ request[i].arguments.force_model

\* C1: when force_model is true or the requested operation is reason or
\* deep_research, the resolved operation is the requested one, whatever
\* indicator words the query contains.
C1_NoReclassification ==
  \A i \in Invocations :
    (pc[i] # "idle"
       /\ (ForceRequested(i) \/ RequestedName(i) \in {"reason", "deep_research"}))
    => selectedTool[i] = RequestedName(i)

\* A forced search of a query with a research indicator was posted as search.
C1_Witness ==
  \E i \in Invocations :
    /\ pc[i] = "awaiting"
    /\ RequestedName(i) = "search"
    /\ ForceRequested(i)
    /\ RequestedQuery(i) = QCompare
    /\ selectedTool[i] = "search"

\* C2: a search that does not force its model resolves by the query's class:
\* complex to reason, research to deep_research, simple stays search; the
\* search of "Compare and contrast REST and GraphQL" resolves to deep_research.
C2_Promotion ==
  \A i \in Invocations :
    (pc[i] # "idle" /\ RequestedName(i) = "search" /\ ~ForceRequested(i))
    => /\ LET class == determineQueryComplexity(RequestedQuery(i)) IN
          \/ class = "complex" /\ selectedTool[i] = "reason"
          \/ class = "research" /\ selectedTool[i] = "deep_research"
          \/ class = "simple" /\ selectedTool[i] = "search"
       /\ RequestedQuery(i) = QCompare => selectedTool[i] = "deep_research"
       /\ RequestedQuery(i) = QFixError => selectedTool[i] = "reason"
       /\ RequestedQuery(i) = QCapital => selectedTool[i] = "search"

\* The search of "Compare and contrast REST and GraphQL", force_model
\* omitted, was posted as deep_research.
C2_Witness ==
  \E i \in Invocations :
    /\ pc[i] = "awaiting"
    /\ RequestedName(i) = "search"
    /\ "force_model" \notin DOMAIN request[i].arguments
    /\ RequestedQuery(i) = QCompare
    /\ selectedTool[i] = "deep_research"

\* The three operations: the model and the fixed ends of the prompt of each.
OperationTable ==
  { [operation |-> "search", model |-> "sonar-pro",
     head |-> searchHead, tail |-> searchTail],
    [operation |-> "reason", model |-> "sonar-reasoning-pro",
     head |-> reasonHead, tail |-> reasonTail],
    [operation |-> "deep_research", model |-> "sonar-deep-research",
     head |-> deepResearchHead, tail |-> deepResearchTail] }

\* C3: every body posted to the backend carries the model of the resolved
\* operation and, as its single user message, the prompt of that operation.
C3_ModelAndPromptOfResolvedOperation ==
  \A i \in Invocations :
    \A k \in DOMAIN posted[i] :
      LET body == posted[i][k] IN
      /\ Len(body.messages) = 1
      /\ body.messages[1].role = "user"
      /\ \E row \in OperationTable :
           /\ row.operation = selectedTool[i]
           /\ body.model = row.model
           /\ Head(body.messages[1].content) = row.head
           /\ body.messages[1].content[Len(body.messages[1].content)] = row.tail

\* A search promoted to reason posted the reasoning model with the reasoning
\* prompt.
C3_Witness ==
  \E i \in Invocations :
    /\ RequestedName(i) = "search"
    /\ selectedTool[i] = "reason"
    /\ Len(posted[i]) = 1
    /\ posted[i][1].model = "sonar-reasoning-pro"
    /\ Head(posted[i][1].messages[1].content) = reasonHead

Rejected(i) == settled[i].kind = "rejected"
Resolved(i) == settled[i].kind = "resolved"
ReplyOf(i) == settled[i].response.data
MalformedReply(i) == Resolved(i) /\ Len(ReplyOf(i).choices) = 0

\* The response body of the rejection carries a non-empty error.message.
CarriesUpstreamMessage(error) ==
  /\ "response" \in DOMAIN error
  /\ "error" \in DOMAIN error.response.data
  /\ "message" \in DOMAIN error.response.data.error
  /\ error.response.data.error.message # <<>>

\* C5: when the post rejects, the invocation ends with the InternalError
\* whose message is "Perplexity API error: " followed by the message of the
\* backend's response body when it carries one, else by the message of the
\* rejection itself.
C5_BackendFailure ==
  \A i \in Invocations :
    Rejected(i)
    => LET error == settled[i].error IN
       /\ pc[i] = "done"
       /\ outcome[i] =
            [kind |-> "throw",
             error |->
               [name |-> "McpError", code |-> "InternalError",
                message |->
                  <<"Perplexity API error: ">>
                  \o (IF CarriesUpstreamMessage(error)
                        THEN error.response.data.error.message
                        ELSE error.message)]]

\* A rejection whose response said "Invalid API key" ended with that message.
C5_Witness ==
  \E i \in Invocations :
    /\ Rejected(i)
    /\ CarriesUpstreamMessage(settled[i].error)
    /\ outcome[i].kind = "throw"
    /\ outcome[i].error.message = <<"Perplexity API error: ">> \o InvalidApiKey

\* Reading the returned text.
HasAtom(text, a) == \E k \in DOMAIN text : text[k] = a
IndexOf(text, a) ==
  CHOOSE k \in DOMAIN text : text[k] = a /\ \A j \in 1..(k - 1) : text[j] # a
StartsWith(text, prefix) ==
  Len(prefix) <= Len(text) /\ SubSeq(text, 1, Len(prefix)) = prefix
ReturnedText(i) == outcome[i].content[1].text
Answer(i) == ReplyOf(i).choices[1].message.content

\* The lines of a text: the runs between its line feeds; no line in no text.
RECURSIVE SplitAtLF(_)
SplitAtLF(t) ==
  IF HasAtom(t, LF)
    THEN <<SubSeq(t, 1, IndexOf(t, LF) - 1)>>
         \o SplitAtLF(SubSeq(t, IndexOf(t, LF) + 1, Len(t)))
    ELSE <<t>>
Lines(t) == IF t = <<>> THEN <<>> ELSE SplitAtLF(t)

\* The invocation failed: unknown operation, rejected post or malformed reply.
Failed(i) ==
  \/ RequestedName(i) \notin {"search", "reason", "deep_research"}
  \/ Rejected(i)
  \/ MalformedReply(i)

\* The text holds the answer and every appendix the reply and the query call
\* for.
FullyPostProcessed(i, text) ==
  /\ StartsWith(text, Answer(i))
  /\ ("citations" \in DOMAIN ReplyOf(i) /\ ReplyOf(i).citations # <<>>)
     => /\ HasAtom(text, SourcesHeader)
        /\ \A k \in DOMAIN ReplyOf(i).citations :
             includes(text, ReplyOf(i).citations[k])
  /\ missingDetails[i] # <<>>
     => /\ HasAtom(text, NoteHeader)
        /\ \A k \in DOMAIN missingDetails[i] : includes(text, missingDetails[i][k])

\* C6: an invocation ends with a text or with an error, never both; a failed
\* one ends with an error alone, a successful one with the answer and its
\* appendices.
C6_AllOrNothing ==
  \A i \in Invocations :
    /\ pc[i] # "done" => outcome[i] = [kind |-> "pending"]
    /\ pc[i] = "done"
       => IF Failed(i)
            THEN outcome[i].kind = "throw" /\ DOMAIN outcome[i] = {"kind", "error"}
            ELSE /\ outcome[i].kind = "return"
                 /\ DOMAIN outcome[i] = {"kind", "content"}
                 /\ Len(outcome[i].content) = 1
                 /\ outcome[i].content[1].type = "text"
                 /\ FullyPostProcessed(i, ReturnedText(i))

\* A reply without choices, citations included, ended with an error alone.
C6_Witness ==
  \E i \in Invocations :
    /\ pc[i] = "done"
    /\ MalformedReply(i)
    /\ "citations" \in DOMAIN ReplyOf(i)
    /\ ReplyOf(i).citations # <<>>
    /\ outcome[i].kind = "throw"

\* C7: an invocation posts at most once, exactly once when its operation
\* resolves to one of the three; a rejection ends it; once it has posted, its
\* resolved operation and what it posted stay as they are.
C7_NoRetries ==
  /\ [](\A i \in Invocations :
          /\ Len(posted[i]) <= 1
          /\ pc[i] # "idle"
             => (Len(posted[i]) = 1
                   <=> selectedTool[i] \in {"search", "reason", "deep_research"})
          /\ Rejected(i) => pc[i] = "done")
  /\ [][\A i \in Invocations :
          pc[i] # "idle"
          => /\ selectedTool'[i] = selectedTool[i]
             /\ posted'[i] = posted[i]
             /\ pc'[i] # "idle"
             /\ pc[i] = "done" => pc'[i] = "done"]_vars

\* A rejected invocation ended having posted once.
C7_Witness ==
  \E i \in Invocations :
    /\ pc[i] = "done"
    /\ Rejected(i)
    /\ Len(posted[i]) = 1
    /\ outcome[i].kind = "throw"

\* C8: the returned text has a Sources section exactly when the reply has a
\* non-empty citation list.
C8_SourcesIffCitationsNonEmpty ==
  \A i \in Invocations :
    (pc[i] = "done" /\ outcome[i].kind = "return")
    => (HasAtom(ReturnedText(i), SourcesHeader)
          <=> ("citations" \in DOMAIN ReplyOf(i)
                 /\ ReplyOf(i).citations # <<>>))

\* The lines of the Sources section: from its header to the note or the end.
SourcesLines(text) ==
  Lines(SubSeq(text, IndexOf(text, SourcesHeader) + 1,
               IF HasAtom(text, NoteHeader) THEN IndexOf(text, NoteHeader) - 1
                                            ELSE Len(text)))

\* C9: a Sources section holds, after its header, one line per citation, the
\* i-th being "<i>: <citation i>", in the order of the reply.
C9_SourcesLines ==
  \A i \in Invocations :
    (pc[i] = "done" /\ outcome[i].kind = "return"
       /\ HasAtom(ReturnedText(i), SourcesHeader))
    => /\ "citations" \in DOMAIN ReplyOf(i)
       /\ LET citations == ReplyOf(i).citations
              lines == SourcesLines(ReturnedText(i)) IN
          /\ Len(lines) = Len(citations)
          /\ \A k \in DOMAIN citations :
               lines[k] = <<DecimalDigits[k + 1], ": ">> \o citations[k]
          /\ citations = <<UrlX, UrlY>>
             => lines = << <<"1", ": ">> \o UrlX, <<"2", ": ">> \o UrlY >>

\* The citations http://x, http://y were returned as a Sources section.
C9_Witness ==
  \E i \in Invocations :
    /\ pc[i] = "done"
    /\ outcome[i].kind = "return"
    /\ "citations" \in DOMAIN ReplyOf(i)
    /\ ReplyOf(i).citations = <<UrlX, UrlY>>
    /\ HasAtom(ReturnedText(i), SourcesHeader)
    /\ Len(SourcesLines(ReturnedText(i))) = 2

\* The items of the note: the lines between its header and its footer.
NoteItems(text) ==
  Lines(SubSeq(text, IndexOf(text, NoteHeader) + 1,
               IndexOf(text, NoteFooter) - 1))

\* C10: the returned text has the missing-detail note exactly when the gap
\* list of the query is non-empty; the note lists the gaps numbered from 1 in
\* the detector's order; the text always begins with the answer.
C10_MissingDetailNote ==
  \A i \in Invocations :
    (pc[i] = "done" /\ outcome[i].kind = "return")
    => LET text == ReturnedText(i)
           gaps == detectMissingDetails(RequestedQuery(i)) IN
       /\ StartsWith(text, Answer(i))
       /\ HasAtom(text, NoteHeader) <=> gaps # <<>>
       /\ gaps # <<>>
          => /\ text[Len(text)] = NoteFooter
             /\ Len(NoteItems(text)) = Len(gaps)
             /\ \A k \in DOMAIN gaps :
                  NoteItems(text)[k] = <<DecimalDigits[k + 1], ". ">> \o gaps[k]

\* "How do I fix this error?" was answered, citations included, with a note
\* of three items.
C10_Witness ==
  \E i \in Invocations :
    /\ pc[i] = "done"
    /\ outcome[i].kind = "return"
    /\ RequestedQuery(i) = QFixError
    /\ "citations" \in DOMAIN ReplyOf(i)
    /\ HasAtom(ReturnedText(i), NoteHeader)
    /\ Len(NoteItems(ReturnedText(i))) = 3

\* The items numbered from k, one per line: "<k><sep><item>".
RECURSIVE NumberedFrom(_, _, _)
NumberedFrom(items, k, sep) ==
  IF items = <<>> THEN <<>>
  ELSE (IF k > 1 THEN <<LF>> ELSE <<>>)
       \o <<DecimalDigits[k + 1], sep>> \o Head(items)
       \o NumberedFrom(Tail(items), k + 1, sep)

\* The Sources section as the citations alone decide it, and the note as the
\* gap list alone decides it.
SourcesSectionOf(data) ==
  IF "citations" \in DOMAIN data
    THEN <<SourcesHeader>> \o NumberedFrom(data.citations, 1, ": ")
    ELSE <<>>
NoteOf(gaps) ==
  IF gaps # <<>>
    THEN <<NoteHeader>> \o NumberedFrom(gaps, 1, ". ") \o <<NoteFooter>>
    ELSE <<>>

\* C11: the returned text is the answer, then the Sources section if any,
\* then the missing-detail note if any; the Sources section is decided by the
\* citations alone and the note by the gap list alone.
C11_SectionOrder ==
  \A i \in Invocations :
    (pc[i] = "done" /\ outcome[i].kind = "return")
    => LET text == ReturnedText(i)
           sources == SourcesSectionOf(ReplyOf(i))
           note == NoteOf(missingDetails[i]) IN
       /\ text = Answer(i) \o sources \o note
       /\ HasAtom(text, SourcesHeader)
          => IndexOf(text, SourcesHeader) = Len(Answer(i)) + 1
       /\ HasAtom(text, NoteHeader)
          => /\ IndexOf(text, NoteHeader) = Len(Answer(i)) + Len(sources) + 1
             /\ text[Len(text)] = NoteFooter
       /\ (~HasAtom(text, SourcesHeader) /\ ~HasAtom(text, NoteHeader))
          => text = Answer(i)

\* A text with both appendices: two citations, then a note.
C11_Witness ==
  \E i \in Invocations :
    /\ pc[i] = "done"
    /\ outcome[i].kind = "return"
    /\ "citations" \in DOMAIN ReplyOf(i)
    /\ Len(ReplyOf(i).citations) = 2
    /\ missingDetails[i] # <<>>
    /\ HasAtom(ReturnedText(i), SourcesHeader)
    /\ HasAtom(ReturnedText(i), NoteHeader)
    /\ IndexOf(ReturnedText(i), SourcesHeader) < IndexOf(ReturnedText(i), NoteHeader)


\* Case-insensitive occurrence of an indicator in a text, position by position.
OccursIn(indicator, text) ==
  \E start \in 1..(Len(text) - Len(indicator) + 1) :
    \A k \in 1..Len(indicator) :
      LowerChar(text[start + k - 1]) = indicator[k]

OccursAny(indicators, text) ==
  \E k \in DOMAIN indicators : OccursIn(indicators[k], text)

Classified == testResult.kind = "complexity"

\* C12: a query whose lower-cased text contains a research indicator is
\* classified research, also when it contains a complex indicator (every
\* query with "compare and contrast" contains "compare" and is research).
C12_ResearchPriority ==
  (Classified /\ OccursAny(researchIndicators, testCase.query))
    => testResult.value = "research"

C12_Witness ==
  /\ Classified
  /\ OccursIn(<<"c", "o", "m", "p", "a", "r", "e", " ", "a", "n", "d", " ", "c", "o", "n", "t", "r", "a", "s", "t">>, testCase.query)
  /\ OccursIn(<<"c", "o", "m", "p", "a", "r", "e">>, testCase.query)
  /\ testResult.value = "research"

\* C13: the classification is exactly one of simple, complex, research;
\* complex exactly when a complex indicator occurs case-insensitively and
\* no research indicator does; simple exactly when no indicator occurs
\* ("What is the capital of France?" is simple); an indicator inside a
\* longer word counts.
C13_Partition ==
  Classified =>
    LET research == OccursAny(researchIndicators, testCase.query)
        complex == OccursAny(complexIndicators, testCase.query) IN
    /\ testResult.value \in {"simple", "complex", "research"}
    /\ (testResult.value = "complex") <=> (complex /\ ~research)
    /\ (testResult.value = "simple") <=> (~complex /\ ~research)
    /\ (testCase.query = QCapital) => testResult.value = "simple"

C13_Witness ==
  /\ Classified
  /\ testCase.query = <<"s", "H", "O", "W", "c", "a", "t">>
  /\ testResult.value = "complex"

Detected == testResult.kind = "missing"

\* C14: detectMissingDetails returns an empty list for the test cases
\* "Query with code snippet (should pass)" and "Query with error and code",
\* which hold an error keyword and a fenced code snippet.
C14_CodeSnippetTestCasesPass ==
  (/\ Detected
   /\ "name" \in DOMAIN testCase
   /\ testCase.name \in {"Query with code snippet (should pass)",
                         "Query with error and code"})
    => /\ testResult.value = <<>>
       /\ testResult.passed

Rule1Entries ==
  << <<"code snippets showing the error context">>,
     <<"relevant logs or stack traces">> >>
VersionEntry == <<"version numbers (framework, library, runtime versions)">>
NamesEntry == <<"exact function names, API endpoints, or library names">>
EnvironmentEntry == <<"environment details (OS, runtime version, framework)">>

\* The entries of rules 1 to 4, in rule order.
RuleOrder == Rule1Entries \o <<VersionEntry, NamesEntry, EnvironmentEntry>>

Listed(list, entry) == \E k \in DOMAIN list : list[k] = entry

Occurrences(list, entry) == Cardinality({k \in DOMAIN list : list[k] = entry})

C20_Rule1 ==
  Detected =>
    LET s == testResult.signals
        gaps == testResult.value
        rule1 == s.hasErrors /\ ~s.hasCode /\ ~s.hasLogs
        fenced == includes(testCase.query, <<Backtick, Backtick, Backtick>>) IN
    /\ Listed(gaps, Rule1Entries[1]) <=> rule1
    /\ Listed(gaps, Rule1Entries[2]) <=> rule1
    /\ rule1 => (Len(gaps) >= 2 /\ SubSeq(gaps, 1, 2) = Rule1Entries)
    /\ (testCase.query = QFixError) => (Len(gaps) >= 2 /\ SubSeq(gaps, 1, 2) = Rule1Entries)
    /\ fenced => (~Listed(gaps, Rule1Entries[1]) /\ ~Listed(gaps, Rule1Entries[2]))

C20_Witness ==
  /\ Detected
  /\ testCase.query = QFixError
  /\ SubSeq(testResult.value, 1, 2) = Rule1Entries

C20_FencedWitness ==
  /\ Detected
  /\ testCase.query = <<"e", "r", "r", "o", "r", " ", Backtick, Backtick, Backtick>>
  /\ ~Listed(testResult.value, Rule1Entries[1])

SuppliedAreas(i) ==
  IF "focus_areas" \in DOMAIN request[i].arguments
    THEN request[i].arguments.focus_areas
    ELSE <<>>

\* C15: the deep_research prompt holds, between the query and the closing
\* instruction block, the supplied focus areas as lines "1. <first>",
\* "2. <second>", ... under their header; with focus_areas omitted or empty
\* it holds no focus-area section.
C15_FocusAreas ==
  \A i \in Invocations :
    \A n \in DOMAIN posted[i] :
      selectedTool[i] = "deep_research" =>
        LET prompt == posted[i][n].messages[1].content
            query == RequestedQuery(i)
            areas == SuppliedAreas(i)
            section == SubSeq(prompt, Len(query) + 2, Len(prompt) - 1) IN
        /\ prompt[1] = deepResearchHead
        /\ SubSeq(prompt, 2, Len(query) + 1) = query
        /\ prompt[Len(prompt)] = deepResearchTail
        /\ areas # <<>> =>
             /\ Head(section) = focusAreasHeader
             /\ Len(Lines(Tail(section))) = Len(areas)
             /\ \A k \in DOMAIN areas :
                  Lines(Tail(section))[k] = <<DecimalDigits[k + 1], ". ">> \o areas[k]
        /\ areas = <<>> =>
             (section = <<>> /\ ~HasAtom(prompt, focusAreasHeader))

C15_Witness ==
  \E i \in Invocations :
    /\ selectedTool[i] = "deep_research"
    /\ Len(posted[i]) = 1
    /\ SuppliedAreas(i) = << <<"B">>, <<"A">> >>
    /\ HasAtom(posted[i][1].messages[1].content, focusAreasHeader)

C15_WitnessNoAreas ==
  \E i \in Invocations :
    /\ selectedTool[i] = "deep_research"
    /\ Len(posted[i]) = 1
    /\ "focus_areas" \in DOMAIN request[i].arguments
    /\ SuppliedAreas(i) = <<>>
    /\ ~HasAtom(posted[i][1].messages[1].content, focusAreasHeader)

\* The gap list of each query, computed from the query alone.
GapsOfQuery == [q \in Queries |-> detectMissingDetails(q)]

HeadOf(tool) ==
  CASE tool = "search" -> searchHead
    [] tool = "reason" -> reasonHead
    [] tool = "deep_research" -> deepResearchHead

\* C18: the prompt sent to the backend embeds the caller's query unchanged
\* for each of the three operations, also after a search was promoted, and
\* the gap list of the note is that of the same query text, whatever the
\* resolved operation, force_model and the backend's answer.
C18_QueryNeverRewritten ==
  \A i \in Invocations :
    /\ \A n \in DOMAIN posted[i] :
         LET prompt == posted[i][n].messages[1].content
             query == RequestedQuery(i) IN
         /\ prompt[1] = HeadOf(selectedTool[i])
         /\ SubSeq(prompt, 2, Len(query) + 1) = query
         /\ prompt[Len(query) + 2]
              \in {searchTail, reasonTail, focusAreasHeader, deepResearchTail}
    /\ (pc[i] = "done" /\ outcome[i].kind = "return")
         => missingDetails[i] = GapsOfQuery[RequestedQuery(i)]

C18_Witness ==
  \E i \in Invocations :
    /\ RequestedName(i) = "search"
    /\ selectedTool[i] = "reason"
    /\ RequestedQuery(i) = QFixError
    /\ SubSeq(posted[i][1].messages[1].content, 2, Len(QFixError) + 1) = QFixError
    /\ pc[i] = "done" /\ outcome[i].kind = "return"
    /\ missingDetails[i] # <<>>

\* The key each .env file of the model holds, read by hand.
KeyInFile(file) ==
  IF file = File(EnvPlain) THEN KeyF
  ELSE IF file = File(EnvQuoted) THEN KeyF
  ELSE IF file = File(EnvSingleQuoted) THEN KeyF
  ELSE IF file = File(EnvSecondLine) THEN KeyG
  ELSE <<>>

KeyResolved == startup \in {"resolved", "running", "failed"}

Returned(key) == apiKey = [kind |-> "return", value |-> key]

C16_WitnessFile ==
  /\ startup = "running"
  /\ EnvKey(env) = <<>>
  /\ fs[DirP] = File(EnvSecondLine)
  /\ Returned(KeyG)
  /\ fsReads = <<DirP>>

C16_WitnessFailed ==
  /\ startup = "failed"
  /\ Get(args, <<"c", "w", "d">>) = DirP
  /\ fs[DirP] = File(EnvCommented)
  /\ apiKey.kind = "throw"

\* What invocation i was given: its request and the settlement of its post.
OwnInputs(i) == <<request[i], settled[i]>>

\* What invocation i did: its resolution, its post, its gap list, its end.
OwnResults(i) == <<pc[i], selectedTool[i], posted[i], missingDetails[i], outcome[i]>>

OwnFields(i) == <<OwnInputs(i), OwnResults(i)>>

\* C17: in every interleaving of concurrent invocations each invocation's
\* results follow from its own request and its own backend reply: the
\* returned text is its own answer, its own citations and the note of its
\* own query; invocations with the same inputs end alike; a step of one
\* invocation leaves the fields of every other one as they were; and the
\* client configuration built at start never changes.
C17_InvocationIndependence ==
  /\ [](\A i \in Invocations :
          /\ \A n \in DOMAIN posted[i] :
               SubSeq(posted[i][n].messages[1].content, 2,
                      Len(RequestedQuery(i)) + 1) = RequestedQuery(i)
          /\ (pc[i] = "done" /\ outcome[i].kind = "return")
               => /\ missingDetails[i] = GapsOfQuery[RequestedQuery(i)]
                  /\ ReturnedText(i)
                       = Answer(i) \o SourcesSectionOf(ReplyOf(i))
                                   \o NoteOf(GapsOfQuery[RequestedQuery(i)])
          /\ \A j \in Invocations :
               (pc[i] = "done" /\ pc[j] = "done" /\ OwnInputs(i) = OwnInputs(j))
                 => OwnResults(i) = OwnResults(j))
  /\ [](axiosInstance = axiosCreate(PERPLEXITY_API_KEY))
  /\ [][\E i \in Invocations :
          \A j \in Invocations \ {i} : OwnFields(j)' = OwnFields(j)]_vars

C17_Witness ==
  \E i, j \in Invocations :
    /\ pc[i] = "done" /\ outcome[i].kind = "return"
    /\ pc[j] = "done" /\ outcome[j].kind = "return"
    /\ RequestedQuery(i) = QFixError /\ RequestedQuery(j) = QCapital
    /\ Answer(i) = <<"a", "n", "s">> /\ Answer(j) = <<"P", "a", "r", "i", "s", " ", "[", "1", "]", "[", "2", "]">>
    /\ HasAtom(ReturnedText(i), NoteHeader) /\ ~HasAtom(ReturnedText(i), SourcesHeader)
    /\ HasAtom(ReturnedText(j), SourcesHeader) /\ ~HasAtom(ReturnedText(j), NoteHeader)

C17_WitnessSuspended ==
  \E i, j \in Invocations :
    /\ i # j
    /\ pc[i] = "awaiting" /\ pc[j] = "awaiting"
    /\ RequestedQuery(i) # RequestedQuery(j)

FallbackEntries ==
  << <<"specific error messages or code snippets">>,
     <<"exact terminology and context">> >>

ProblemWords ==
  << <<"p", "r", "o", "b", "l", "e", "m">>, <<"i", "s", "s", "u", "e">>, <<"b", "u", "g">>, <<"f", "i", "x">>, <<"s", "o", "l", "u", "t", "i", "o", "n">>,
     <<"h", "o", "w", " ", "t", "o">>, <<"w", "h", "y">>, <<"d", "e", "b", "u", "g">> >>

\* C21: the two fallback entries are appended exactly when rules 1 to 4
\* produced nothing, the query holds a problem-solving word, is shorter than
\* 50 characters and has neither the code signal nor the error signal; the
\* gap list then is exactly these two entries.
C21_Fallback ==
  Detected =>
    LET s == testResult.signals
        gaps == testResult.value
        query == testCase.query
        rules1to4 == \E r \in DOMAIN RuleOrder : Listed(gaps, RuleOrder[r])
        fallback ==
          /\ ~rules1to4
          /\ OccursAny(ProblemWords, query)
          /\ Len(query) < 50
          /\ ~s.hasCode /\ ~s.hasErrors IN
    /\ Listed(gaps, FallbackEntries[1]) <=> fallback
    /\ Listed(gaps, FallbackEntries[2]) <=> fallback
    /\ fallback => gaps = FallbackEntries

C21_Witness ==
  /\ Detected
  /\ testCase.query = <<"1", ".", "2", " ", "n", "o", "d", "e", " ", "f", "i", "x", " ">>
  /\ testResult.value = FallbackEntries

C21_WitnessTooLong ==
  /\ Detected
  /\ testCase.query = <<"f", "i", "x", " ">> \o Padding
  /\ Len(testCase.query) = 50
  /\ testResult.value = <<>>

\* An uppercase letter, one or more lowercase letters, an uppercase letter.
HasMixedCaseIdentifier(text) ==
  \E p \in DOMAIN text :
    /\ text[p] \in UpperSet
    /\ \E j \in (p + 2)..Len(text) :
         /\ \A k \in (p + 1)..(j - 1) : text[k] \in LowerSet
         /\ text[j] \in UpperSet

HasNamePattern(text) ==
  \/ HasMixedCaseIdentifier(text)
  \/ testDottedCall(text)
  \/ testNamespace(text)
  \/ OccursIn(<<"a", "p", "i", ".">>, text)
  \/ OccursIn(<<"s", "d", "k", ".">>, text)

AllLowerCase(text) == \A k \in DOMAIN text : text[k] \notin UpperSet

\* C22: the name signal holds only for a query with a mixed-case identifier,
\* a dotted call, a namespace separator or "api."/"sdk."; so an all-lowercase
\* query with the error or code signal and none of these patterns gets the
\* entry "exact function names, API endpoints, or library names".
C22_NameSignal ==
  Detected =>
    LET s == testResult.signals
        query == testCase.query IN
    /\ s.hasSpecificNames => HasNamePattern(query)
    /\ (AllLowerCase(query) /\ (s.hasErrors \/ s.hasCode) /\ ~HasNamePattern(query))
         => Listed(testResult.value, NamesEntry)

KeyFromCommandLine ==
  /\ startup \in {"resolved", "running"}
  /\ Truthy(Get(args, <<"a", "p", "i", "-", "k", "e", "y">>))
  /\ Returned(Get(args, <<"a", "p", "i", "-", "k", "e", "y">>))

\* C23: once getApiKey has returned a key taken from the command line, no
\* element of process.argv contains that key, whether it was passed as
\* "--api-key KEY", "--api-key=KEY" or through the alias "--apiKey".
C23_KeyRedacted ==
  KeyFromCommandLine
    => \A k \in DOMAIN argv : ~includes(argv[k], apiKey.value)

C23_AliasLeak ==
  /\ KeyFromCommandLine
  /\ argv = << <<"-", "-", "a", "p", "i", "K", "e", "y">>, KeyK >>

\* The invocation has ended with exactly one outcome: a text payload and no
\* error, or an error and no payload.
OneOutcome(i) ==
  \/ /\ outcome[i].kind = "return"
     /\ DOMAIN outcome[i] = {"kind", "content"}
     /\ Len(outcome[i].content) = 1
     /\ outcome[i].content[1].type = "text"
  \/ /\ outcome[i].kind = "throw"
     /\ DOMAIN outcome[i] = {"kind", "error"}

\* C24: when the backend settles every post, every invocation eventually
\* ends, with exactly one outcome that is never replaced; an invocation of
\* an unknown operation ends in the step that receives it, having posted
\* nothing.
C24_Termination ==
  /\ \A i \in Invocations : (pc[i] # "idle") ~> (pc[i] = "done")
  /\ [](\A i \in Invocations :
          /\ pc[i] = "done" => OneOutcome(i)
          /\ pc[i] # "done" => outcome[i] = [kind |-> "pending"]
          /\ (pc[i] # "idle" /\ RequestedName(i) \notin KnownTools)
               => (pc[i] = "done" /\ posted[i] = <<>> /\ settled[i].kind = "pending"))
  /\ [][\A i \in Invocations :
          pc[i] = "done" => (pc'[i] = "done" /\ outcome'[i] = outcome[i])]_vars

C24_Witness ==
  \E i, j \in Invocations :
    /\ pc[i] = "done" /\ outcome[i].kind = "return" /\ Len(posted[i]) = 1
    /\ pc[j] = "done" /\ outcome[j].kind = "throw"
    /\ RequestedName(j) = "Search" /\ posted[j] = <<>>

C25_WitnessIncomplete ==
  /\ Detected
  /\ testCase.query = <<"e", "r", "r", "o", "r", " ", Backtick, Backtick, Backtick, "1", ".", "2", " ">>
  /\ testResult.value = <<EnvironmentEntry>>
=============================================================================
